---- MODULE Spec2Model ----
(***************************************************************************)
(* Token lifecycle store and OAuth redemption flow of the Discord invite   *)
(* bot (src/main.py, and its extended-profile variant src/alt.py).         *)
(*                                                                         *)
(* The token table is the SQLite table `tokens`; every handler opens its   *)
(* own connection, so the table and SQLite's write lock are the only       *)
(* shared state.  A token value (uuid4().hex) is modelled as a fresh       *)
(* natural number; time is counted in minutes.                             *)
(*                                                                         *)
(* The specifications share the actions:                                    *)
(*   SpecStore  the token store from an empty table: issuance, the email   *)
(*              status update, the purge, and callbacks up to the return   *)
(*              of validate_and_mark;                                      *)
(*   SpecFlow   the whole callback pipeline, the email status update and   *)
(*              the purge, from a table that already holds issued tokens.  *)
(*   SpecIssue  the issuance handlers with every input, accepted or        *)
(*              refused, the email status update and the purge;            *)
(*   SpecFault  as SpecFlow up to the return of validate_and_mark, with    *)
(*              storage errors in validate_and_mark and send_welcome_email.*)
(*   SpecRestart as SpecFlow up to the return of validate_and_mark, with    *)
(*              stops and restarts of the process.                         *)
(*   SpecChain  issuance without a token parameter, with every input, and  *)
(*              the whole callback pipeline, from an empty table;          *)
(*   SpecLink   GET /invite with a token parameter and the whole callback  *)
(*              pipeline, from a table that holds issued tokens;           *)
(*   SpecPair   callbacks on different tokens that have all called         *)
(*              validate_and_mark before any of them took the write lock;  *)
(*   SpecLive   the callbacks alone, storage errors included, with weak    *)
(*              fairness of every handler's next statement.                *)
(***************************************************************************)
EXTENDS Integers, Sequences, FiniteSets, TLC

\* ---------------------------------------------------------------- bounds
MaxReq     == 2     \* callback requests in one behaviour
MaxTokens  == 2     \* tokens issued in one behaviour of SpecStore
FlowTokens == 2     \* tokens already issued when SpecFlow starts
MaxTicks   == 2     \* clock advances in one behaviour

\* ------------------------------------------------------ program constants
ValidMinutes == 60  \* create_token(..., valid_minutes: int = 60)

\* Keys of ROLE_MAP and the external role id each maps to.
ROLE_MAP ==
    [k \in {"lbtcl_cohort", "bpd_cohort", "mb_cohort", "pb_cohort"} |->
        CASE k = "lbtcl_cohort" -> "ROLE_LBTCL_ID"
          [] k = "bpd_cohort"   -> "ROLE_BPD_ID"
          [] k = "mb_cohort"    -> "ROLE_MASTER_ID"
          [] k = "pb_cohort"    -> "ROLE_PB_ID"]

NoEmail == "None"   \* Python None for the email column
NoRole  == "None"   \* Python None returned by validate_and_mark
NoLock  == 0        \* nobody holds SQLite's write lock
Bogus   == 0        \* a state parameter that was never a token

\* ----------------------------------------------------------------- inputs
\* Role selectors of GET /invite/{cohort}: two configured, one unknown.
Selectors == {"pb_cohort", "mb_cohort", "unknown"}

\* Bodies of POST /bot/invite: two well-formed, one with an unknown role,
\* one without an email.
Body(role, email) == [role |-> role, email |-> email]
PostBodies ==
    { Body("pb_cohort", "a@x.org"), Body("mb_cohort", "b@x.org"),
      Body("unknown", "a@x.org"), Body("pb_cohort", NoEmail) }

Requests == 1..MaxReq

VARIABLES
    variant,     \* "main" (src/main.py) or "alt" (src/alt.py)
    now,         \* datetime.utcnow(), in minutes
    tokens,      \* the tokens table: token -> row, for the rows that exist
    nextToken,   \* the next fresh token value
    dbLock,      \* the request holding SQLite's write lock, or NoLock
    req,         \* the callback requests
    dispatch,    \* POST /bot/invite handlers past create_token:
                 \* token -> "pending" | "SENT" | "EMAIL_FAILED"
    out,         \* the callback response the step just taken sent, or NoOut
    hist,        \* history, per issued token: the role_key it was issued for,
                 \* validate_and_mark calls that returned a role_key (wins) or
                 \* None (nones), requests that entered GRANTING_ROLE (entered),
                 \* role-grant calls (grants), the cohort in the path of the
                 \* last GET /invite that carried the token (link)
    lostUnused,  \* history: tokens whose row was deleted while unused
    resp         \* the response of an issuance or cleanup handler that the
                 \* step just taken sent, or NoResp

vars == <<variant, now, tokens, nextToken, dbLock, req, dispatch, out, hist,
          lostUnused, resp>>

Issued == 1..(nextToken - 1)

\* A callback request: where its handler stands, its query parameters, what
\* validate_and_mark returned (role_key), whether its UPDATE changed the row
\* from unused to used (marked), the row as it was when its transaction
\* began (pre), the external calls it has made, and the statement of
\* validate_and_mark at which the storage layer raised an error (fault).
NoPre == [row |-> "", expired |-> FALSE]
IdleReq ==
    [pc |-> "idle", state |-> Bogus, code |-> FALSE, role_key |-> NoRole,
     marked |-> FALSE, pre |-> NoPre, calls |-> <<>>, fault |-> ""]
DoneReq == [IdleReq EXCEPT !.pc = "done"]

\* The response of a request that ended (status 0: none, it was cancelled).
Event(q, status, text) ==
    [state |-> q.state, code |-> q.code, role_key |-> q.role_key,
     marked |-> q.marked, pre |-> q.pre, calls |-> q.calls, fault |-> q.fault,
     status |-> status, text |-> text]
NoOut == Event(IdleReq, 0, "")

NewHist(role_key) ==
    [role_key |-> role_key, wins |-> 0, nones |-> 0, entered |-> 0, grants |-> 0,
     link |-> ""]

\* ------------------------------------------------------------ Token Store

\* The row create_token inserts.
Row(id, role_key, email) ==
    [id |-> id, role_key |-> role_key, email |-> email,
     expires_at |-> now + ValidMinutes, used |-> FALSE, email_sent |-> FALSE]

\* The id of the row: main.py AUTOINCREMENT (one more than every id given
\* before); alt.py SELECT COALESCE(MAX(id), 0) + 1 ... WHERE email = ?.
NextId(email) ==
    IF variant = "main"
    THEN nextToken
    ELSE LET ids == {tokens[t].id : t \in {u \in DOMAIN tokens : tokens[u].email = email}}
         IN  IF ids = {} THEN 1
             ELSE (CHOOSE m \in ids : \A n \in ids : n <= m) + 1

NewRow(role_key, email) == Row(NextId(email), role_key, email)

\* Mutant of CanInsert: the table has no constraint on email.
CanInsertAny(email) ==
    \/ variant = "main"
    \/ /\ variant = "alt"
       /\ email # NoEmail

\* create_token's INSERT succeeds: main.py has no constraint but the fresh
\* token; alt.py requires an email and has PRIMARY KEY (email).
CanInsert(email) ==
    \/ variant = "main"
    \/ /\ variant = "alt"
       /\ email # NoEmail
       /\ \A t \in DOMAIN tokens : tokens[t].email # email

\* Mutant of create_token: the token is the smallest value no row of the
\* table has, so the value of a purged record is given out again.
create_token_reusing(role_key, email) ==
    /\ dbLock = NoLock
    /\ nextToken <= MaxTokens
    /\ CanInsert(email)
    /\ LET t == CHOOSE u \in 1..nextToken :
                    u \notin DOMAIN tokens /\ \A v \in 1..(u - 1) : v \in DOMAIN tokens
       IN  /\ tokens' = tokens @@ (t :> NewRow(role_key, email))
           /\ hist' = hist @@ (t :> NewHist(role_key))
    /\ nextToken' = nextToken + 1

\* create_token: INSERT and commit, one write transaction.
create_token(role_key, email) ==
    /\ dbLock = NoLock
    /\ nextToken <= MaxTokens
    /\ CanInsert(email)
    /\ tokens' = tokens @@ (nextToken :> NewRow(role_key, email))
    /\ hist' = hist @@ (nextToken :> NewHist(role_key))
    /\ nextToken' = nextToken + 1

\* Mutant of Expired: the time of creation is compared, not expires_at.
ExpiredSinceCreation(row) == row.expires_at - ValidMinutes < now

\* cleanup_expired_tokens: DELETE ... WHERE expires_at < now, and commit.
Expired(row) == row.expires_at < now

\* Mutant of cleanup_expired_tokens: only used records are deleted.
cleanup_expired_used ==
    /\ dbLock = NoLock
    /\ LET keep == {t \in DOMAIN tokens : ~(Expired(tokens[t]) /\ tokens[t].used)}
       IN  /\ tokens' = [t \in keep |-> tokens[t]]
           /\ lostUnused' = lostUnused

\* Mutant of cleanup_expired_tokens: the DELETE does not wait for the write
\* lock of a redemption in flight.
cleanup_expired_unlocked ==
    LET keep == {t \in DOMAIN tokens : ~Expired(tokens[t])}
    IN  /\ tokens' = [t \in keep |-> tokens[t]]
        /\ lostUnused' = lostUnused \cup
               {t \in DOMAIN tokens : Expired(tokens[t]) /\ ~tokens[t].used}

cleanup_expired_tokens ==
    /\ dbLock = NoLock
    /\ LET keep == {t \in DOMAIN tokens : ~Expired(tokens[t])}
       IN  /\ tokens' = [t \in keep |-> tokens[t]]
           /\ lostUnused' = lostUnused \cup
                  {t \in DOMAIN tokens : Expired(tokens[t]) /\ ~tokens[t].used}

\* ------------------------------------------------------ Invitation Issuer

\* The response of an issuance or cleanup handler: the route, the role
\* selector and the token parameter of the request, the HTTP status, the
\* "status" field of a JSON body or the text of a plain one, the error
\* message of an error body, the token the response carries (in the JSON
\* body, or as the state parameter of the redirect), and for the POST
\* handler what send_email_smtp returned.
Resp(route, role, given, status, body, error, token, smtp) ==
    [route |-> route, role |-> role, given |-> given, status |-> status,
     body |-> body, error |-> error, token |-> token, smtp |-> smtp,
     email |-> NoEmail]
NoResp == Resp("", "", Bogus, 0, "", "", Bogus, "")

\* The error response of POST /bot/invite.
InviteError(body, status, error) ==
    [Resp("POST /bot/invite", body.role, Bogus, status, "ERROR", error, Bogus, "")
        EXCEPT !.email = body.email]

\* Mutant of send_invite_email: the cohort is not validated.
send_invite_email_unvalidated(body) ==
    /\ out' = NoOut
    /\ UNCHANGED <<variant, now, dbLock, req, lostUnused>>
    /\ body.email # NoEmail
    /\ CanInsert(body.email)
    /\ create_token(body.role, body.email)
    /\ dispatch' = dispatch @@ (nextToken :> "pending")
    /\ resp' = NoResp

\* POST /bot/invite, up to create_token.
\* A missing field or an unknown cohort is answered 400 before the store is
\* touched; an exception of create_token (alt.py: a second row for the
\* email) is answered 500 by the handler's except clause.
send_invite_email(body) ==
    /\ out' = NoOut
    /\ UNCHANGED <<variant, now, dbLock, req, lostUnused>>
    /\ IF body.email = NoEmail
       THEN /\ resp' = InviteError(body, 400, "Missing required fields")
            /\ UNCHANGED <<tokens, nextToken, dispatch, hist>>
       ELSE IF body.role \notin DOMAIN ROLE_MAP
       THEN /\ resp' = InviteError(body, 400, "Invalid cohort")
            /\ UNCHANGED <<tokens, nextToken, dispatch, hist>>
       ELSE IF CanInsert(body.email)
       THEN /\ create_token(body.role, body.email)
            /\ dispatch' = dispatch @@ (nextToken :> "pending")
            /\ resp' = NoResp
       ELSE /\ dbLock = NoLock
            /\ resp' = InviteError(body, 500, "IntegrityError")
            /\ UNCHANGED <<tokens, nextToken, dispatch, hist>>

\* POST /register (alt.py): an alias of POST /bot/invite.
register_user(body) ==
    /\ variant = "alt"
    /\ send_invite_email(body)

\* The response of the POST handler for token t once send_welcome_email has
\* returned email_sent.
InviteResponse(t, email_sent, smtp) ==
    IF email_sent
    THEN Resp("POST /bot/invite", hist[t].role_key, Bogus, 200, "SENT", "", t, smtp)
    ELSE Resp("POST /bot/invite", hist[t].role_key, Bogus, 500, "EMAIL_FAILED", "",
              t, smtp)

\* What send_email_smtp did, for its return value.
Smtp(sent) == IF sent THEN "sent" ELSE "failed"

\* Mutant of send_welcome_email: a failed dispatch takes the record back.
send_welcome_email_reversing(t, sent) ==
    /\ t \in DOMAIN dispatch
    /\ dispatch[t] = "pending"
    /\ dbLock = NoLock
    /\ tokens' = [u \in DOMAIN tokens |->
                     IF u = t THEN [tokens[u] EXCEPT !.email_sent = sent, !.used = ~sent]
                              ELSE tokens[u]]
    /\ dispatch' = [dispatch EXCEPT ![t] = IF sent THEN "SENT" ELSE "EMAIL_FAILED"]
    /\ out' = NoOut
    /\ resp' = InviteResponse(t, sent, Smtp(sent))
    /\ UNCHANGED <<variant, now, nextToken, dbLock, req, hist, lostUnused>>

\* send_welcome_email and the rest of the POST handler: the SMTP dispatch
\* succeeds or not (sent), UPDATE tokens SET email_sent = sent WHERE token = t,
\* then the response (SENT, or EMAIL_FAILED with status 500).
send_welcome_email(t, sent) ==
    /\ t \in DOMAIN dispatch
    /\ dispatch[t] = "pending"
    /\ dbLock = NoLock
    /\ tokens' = [u \in DOMAIN tokens |->
                     IF u = t THEN [tokens[u] EXCEPT !.email_sent = sent]
                              ELSE tokens[u]]
    /\ dispatch' = [dispatch EXCEPT ![t] = IF sent THEN "SENT" ELSE "EMAIL_FAILED"]
    /\ out' = NoOut
    /\ resp' = InviteResponse(t, sent, Smtp(sent))
    /\ UNCHANGED <<variant, now, nextToken, dbLock, req, hist, lostUnused>>

\* The response of GET /invite/{cohort}.
InviteRedirect(cohort, provided_token, token) ==
    Resp("GET /invite", cohort, provided_token, 302, "oauth_url", "", token, "")
InviteRefusal(cohort, provided_token, status, text, error) ==
    Resp("GET /invite", cohort, provided_token, status, text, error, Bogus, "")

\* History: GET /invite/{cohort} carried token t.
Linked(t, cohort) ==
    IF t \in DOMAIN hist THEN [hist EXCEPT ![t].link = cohort] ELSE hist

\* Mutant of invite: the cohort is not validated.
invite_unvalidated(cohort, provided_token) ==
    /\ out' = NoOut
    /\ UNCHANGED <<variant, now, dbLock, req, dispatch, lostUnused>>
    /\ IF provided_token # Bogus
       THEN /\ resp' = InviteRedirect(cohort, provided_token, provided_token)
            /\ hist' = Linked(provided_token, cohort)
            /\ UNCHANGED <<tokens, nextToken>>
       ELSE IF variant = "alt"
       THEN /\ resp' = InviteRefusal(cohort, provided_token, 500,
                                     "Internal Server Error", "ValueError")
            /\ UNCHANGED <<tokens, nextToken, hist>>
       ELSE /\ create_token(cohort, NoEmail)
            /\ resp' = InviteRedirect(cohort, provided_token, nextToken)

\* GET /invite/{cohort}: with a token parameter the token is passed on as
\* state; without one create_token(cohort) is called with no email, which
\* alt.py refuses with ValueError (the handler does not catch it: 500).
invite(cohort, provided_token) ==
    /\ out' = NoOut
    /\ UNCHANGED <<variant, now, dbLock, req, dispatch, lostUnused>>
    /\ IF cohort \notin DOMAIN ROLE_MAP
       THEN /\ resp' = InviteRefusal(cohort, provided_token, 400, "Invalid cohort", "")
            /\ UNCHANGED <<tokens, nextToken, hist>>
       ELSE IF provided_token # Bogus
       THEN /\ resp' = InviteRedirect(cohort, provided_token, provided_token)
            /\ hist' = Linked(provided_token, cohort)
            /\ UNCHANGED <<tokens, nextToken>>
       ELSE IF variant = "alt"
       THEN /\ resp' = InviteRefusal(cohort, provided_token, 500,
                                     "Internal Server Error", "ValueError")
            /\ UNCHANGED <<tokens, nextToken, hist>>
       ELSE /\ create_token(cohort, NoEmail)
            /\ resp' = InviteRedirect(cohort, provided_token, nextToken)

\* GET /cleanup
cleanup_tokens ==
    /\ cleanup_expired_tokens
    /\ out' = NoOut
    /\ resp' = Resp("GET /cleanup", "", Bogus, 200,
                    "Expired tokens cleaned up successfully", "", Bogus, "")
    /\ UNCHANGED <<variant, now, nextToken, dbLock, req, dispatch, hist>>

\* The clock advances.
Tick ==
    /\ now < MaxTicks * ValidMinutes
    /\ now' = now + ValidMinutes
    /\ out' = NoOut
    /\ resp' = NoResp
    /\ UNCHANGED <<variant, tokens, nextToken, dbLock, req, dispatch, hist, lostUnused>>

\* ---------------------------------------------- Redemption Flow Controller

\* One external call of a request, with what the provider answered.
Call(name, arg, outcome) == [call |-> name, arg |-> arg, outcome |-> outcome]

\* History: one more of `what` for token t (requests with a state that was
\* never a token are not counted).
Count(t, what) ==
    IF t \notin DOMAIN hist THEN hist
    ELSE CASE what = "wins"    -> [hist EXCEPT ![t].wins = @ + 1]
           [] what = "nones"   -> [hist EXCEPT ![t].nones = @ + 1]
           [] what = "entered" -> [hist EXCEPT ![t].entered = @ + 1]
           [] what = "grants"  -> [hist EXCEPT ![t].grants = @ + 1]

\* The row of token t as a transaction that begins now finds it.
RowState(t) ==
    IF t \notin DOMAIN tokens THEN [row |-> "absent", expired |-> FALSE]
    ELSE [row |-> IF tokens[t].used THEN "used" ELSE "unused",
          expired |-> Expired(tokens[t])]

\* The handler of request r ends in state q with a response.
Finish(r, q, status, text) ==
    /\ req' = [req EXCEPT ![r] = DoneReq]
    /\ out' = Event(q, status, text)
    /\ resp' = NoResp

\* Mutant of AfterValidate: only the code is checked, "if not code".
AfterValidateCodeOnly(r, role_key, marked) ==
    LET q == [req[r] EXCEPT !.role_key = role_key, !.marked = marked]
    IN  IF ~q.code
        THEN Finish(r, q, 400, "Invalid, expired, or already-used link")
        ELSE /\ req' = [req EXCEPT ![r] = [q EXCEPT !.pc = "exchange"]]
             /\ out' = NoOut
             /\ resp' = NoResp

\* Mutant of AfterValidate: a token that was already used gets an answer of
\* its own.
AfterValidateTelling(r, role_key, marked) ==
    LET q == [req[r] EXCEPT !.role_key = role_key, !.marked = marked]
    IN  IF role_key = NoRole /\ q.pre.row = "used"
        THEN Finish(r, q, 409, "Link already used")
        ELSE IF ~q.code \/ role_key = NoRole
        THEN Finish(r, q, 400, "Invalid, expired, or already-used link")
        ELSE /\ req' = [req EXCEPT ![r] = [q EXCEPT !.pc = "exchange"]]
             /\ out' = NoOut
             /\ resp' = NoResp

\* oauth_callback once validate_and_mark has returned role_key:
\* "if not code or not role_key" answers 400, else the code exchange is next.
AfterValidate(r, role_key, marked) ==
    LET q == [req[r] EXCEPT !.role_key = role_key, !.marked = marked]
    IN  IF ~q.code \/ role_key = NoRole
        THEN Finish(r, q, 400, "Invalid, expired, or already-used link")
        ELSE /\ req' = [req EXCEPT ![r] = [q EXCEPT !.pc = "exchange"]]
             /\ out' = NoOut
             /\ resp' = NoResp

\* Mutant of Receive: the code is checked before validate_and_mark is
\* called.
ReceiveCheckingCode(r, state, code) ==
    /\ req[r].pc = "idle"
    /\ IF r = 1 THEN TRUE ELSE req[r - 1].pc # "idle"
    /\ LET q == [req[r] EXCEPT !.pc = "begin", !.state = state, !.code = code]
       IN  IF code
           THEN /\ req' = [req EXCEPT ![r] = q]
                /\ out' = NoOut
                /\ resp' = NoResp
           ELSE Finish(r, q, 400, "Invalid, expired, or already-used link")
    /\ UNCHANGED <<variant, now, tokens, nextToken, dbLock, dispatch, hist, lostUnused>>

\* GET /bot/callback arrives with query parameters state and code.  Request
\* slots are taken in order.
Receive(r, state, code) ==
    /\ req[r].pc = "idle"
    /\ IF r = 1 THEN TRUE ELSE req[r - 1].pc # "idle"
    /\ req' = [req EXCEPT ![r] = [@ EXCEPT !.pc = "begin", !.state = state,
                                           !.code = code]]
    /\ out' = NoOut
    /\ resp' = NoResp
    /\ UNCHANGED <<variant, now, tokens, nextToken, dbLock, dispatch, hist, lostUnused>>

\* Mutant of BeginImmediate: a plain BEGIN, which takes no lock before the
\* SELECT.
BeginDeferred(r) ==
    /\ req[r].pc = "begin"
    /\ req' = [req EXCEPT ![r] = [@ EXCEPT !.pc = "select",
                                           !.pre = RowState(req[r].state)]]
    /\ out' = NoOut
    /\ resp' = NoResp
    /\ UNCHANGED <<variant, now, tokens, nextToken, dbLock, dispatch, hist, lostUnused>>

\* validate_and_mark: BEGIN IMMEDIATE takes the write lock, waiting while
\* another connection holds it.
BeginImmediate(r) ==
    /\ req[r].pc = "begin"
    /\ dbLock = NoLock
    /\ dbLock' = r
    /\ req' = [req EXCEPT ![r] = [@ EXCEPT !.pc = "select",
                                           !.pre = RowState(req[r].state)]]
    /\ out' = NoOut
    /\ resp' = NoResp
    /\ UNCHANGED <<variant, now, tokens, nextToken, dispatch, hist, lostUnused>>

\* Mutant of RowValid: the "already used" check is missing.
RowExists(t) == t \in DOMAIN tokens

\* Mutant of RowValid: the commented-out expiry check is enabled.
RowValidUnexpired(t) ==
    /\ t \in DOMAIN tokens
    /\ ~tokens[t].used
    /\ ~Expired(tokens[t])

\* The row passes validate_and_mark's checks: it exists and is not used.
\* (The expiry check is commented out in the source.)
RowValid(t) ==
    /\ t \in DOMAIN tokens
    /\ ~tokens[t].used

\* Mutant of SelectRow: when the row is missing or used the transaction is
\* rolled back and validate_and_mark starts again.
SelectRowRetrying(r) ==
    /\ req[r].pc = "select"
    /\ IF RowValid(req[r].state)
       THEN /\ req' = [req EXCEPT ![r] =
                          [@ EXCEPT !.pc = "update",
                                    !.role_key = tokens[req[r].state].role_key]]
            /\ UNCHANGED dbLock
       ELSE /\ req' = [req EXCEPT ![r] = [@ EXCEPT !.pc = "begin", !.pre = NoPre]]
            /\ dbLock' = IF dbLock = r THEN NoLock ELSE dbLock
    /\ out' = NoOut
    /\ resp' = NoResp
    /\ UNCHANGED <<variant, now, tokens, nextToken, dispatch, hist, lostUnused>>

\* validate_and_mark: SELECT the row; no row or a used row rolls back and
\* returns None, otherwise row['role_key'] is kept for the return.
SelectRow(r) ==
    /\ req[r].pc = "select"
    /\ IF RowValid(req[r].state)
       THEN /\ req' = [req EXCEPT ![r] =
                          [@ EXCEPT !.pc = "update",
                                    !.role_key = tokens[req[r].state].role_key]]
            /\ out' = NoOut
            /\ resp' = NoResp
            /\ UNCHANGED <<dbLock, hist>>
       ELSE /\ AfterValidate(r, NoRole, FALSE)
            /\ hist' = Count(req[r].state, "nones")
            /\ dbLock' = IF dbLock = r THEN NoLock ELSE dbLock
    /\ UNCHANGED <<variant, now, tokens, nextToken, dispatch, lostUnused>>

\* Mutant of MarkUsed: the UPDATE has no WHERE clause.
MarkUsedAll(r) ==
    /\ req[r].pc = "update"
    /\ LET t == req[r].state
       IN  /\ tokens' = [u \in DOMAIN tokens |-> [tokens[u] EXCEPT !.used = TRUE]]
           /\ AfterValidate(r, req[r].role_key,
                            t \in DOMAIN tokens /\ ~tokens[t].used /\ tokens'[t].used)
           /\ hist' = Count(t, "wins")
    /\ dbLock' = IF dbLock = r THEN NoLock ELSE dbLock
    /\ UNCHANGED <<variant, now, nextToken, dispatch, lostUnused>>

\* Mutant of MarkUsed: the UPDATE is missing, the role_key is returned all
\* the same.
MarkUsedNoUpdate(r) ==
    /\ req[r].pc = "update"
    /\ AfterValidate(r, req[r].role_key, FALSE)
    /\ hist' = Count(req[r].state, "wins")
    /\ dbLock' = IF dbLock = r THEN NoLock ELSE dbLock
    /\ UNCHANGED <<variant, now, tokens, nextToken, dispatch, lostUnused>>

\* Mutant of MarkUsed: the UPDATE also renews expires_at.
MarkUsedRenewing(r) ==
    /\ req[r].pc = "update"
    /\ LET t == req[r].state
       IN  /\ tokens' = [u \in DOMAIN tokens |->
                            IF u = t THEN [tokens[u] EXCEPT !.used = TRUE,
                                               !.expires_at = now + ValidMinutes]
                                     ELSE tokens[u]]
           /\ AfterValidate(r, req[r].role_key,
                            t \in DOMAIN tokens /\ ~tokens[t].used /\ tokens'[t].used)
           /\ hist' = Count(t, "wins")
    /\ dbLock' = IF dbLock = r THEN NoLock ELSE dbLock
    /\ UNCHANGED <<variant, now, nextToken, dispatch, lostUnused>>

\* validate_and_mark: UPDATE tokens SET used = TRUE WHERE token = ?, commit,
\* and return the role_key that was selected.
MarkUsed(r) ==
    /\ req[r].pc = "update"
    /\ LET t == req[r].state
       IN  /\ tokens' = [u \in DOMAIN tokens |->
                            IF u = t THEN [tokens[u] EXCEPT !.used = TRUE]
                                     ELSE tokens[u]]
           /\ AfterValidate(r, req[r].role_key,
                            t \in DOMAIN tokens /\ ~tokens[t].used /\ tokens'[t].used)
           /\ hist' = Count(t, "wins")
    /\ dbLock' = IF dbLock = r THEN NoLock ELSE dbLock
    /\ UNCHANGED <<variant, now, nextToken, dispatch, lostUnused>>

\* The statements of validate_and_mark at which the storage layer may raise
\* (sqlite3.OperationalError: the database is locked, a disk I/O error).
FaultPoints == {"begin", "select", "update", "commit"}

\* validate_and_mark with a storage error.  BEGIN IMMEDIATE stands before
\* the try: its exception leaves validate_and_mark and oauth_callback, and
\* aiohttp answers 500.  The SELECT, the UPDATE and the commit stand inside
\* it: "except Exception" rolls back and returns None, and oauth_callback
\* answers as for a token that is not redeemable.
StorageFault(r, at) ==
    /\ req[r].pc = CASE at = "begin"  -> "begin"
                     [] at = "select" -> "select"
                     [] OTHER         -> "update"
    /\ LET q == [req[r] EXCEPT !.fault = at, !.role_key = NoRole]
       IN  IF at = "begin"
           THEN /\ Finish(r, q, 500, "Internal Server Error")
                /\ UNCHANGED <<dbLock, hist>>
           ELSE /\ Finish(r, q, 400, "Invalid, expired, or already-used link")
                /\ hist' = Count(req[r].state, "nones")
                /\ dbLock' = IF dbLock = r THEN NoLock ELSE dbLock
    /\ UNCHANGED <<variant, now, tokens, nextToken, dispatch, lostUnused>>

\* send_welcome_email with a storage error: the UPDATE of email_sent raises
\* after send_email_smtp has returned, "except Exception" returns False.
send_welcome_email_fault(t, sent) ==
    /\ t \in DOMAIN dispatch
    /\ dispatch[t] = "pending"
    /\ dispatch' = [dispatch EXCEPT ![t] = "EMAIL_FAILED"]
    /\ out' = NoOut
    /\ resp' = InviteResponse(t, FALSE, Smtp(sent))
    /\ UNCHANGED <<variant, now, tokens, nextToken, dbLock, req, hist, lostUnused>>

\* What the provider may answer to each call; "error" is a transport failure
\* or an unparsable body, which raises out of the handler (500).
ExchangeOutcomes == {"access_token", "no_access_token", "error"}
IdentityOutcomes == {"id", "no_id", "error"}
PutOutcomes      == {"ok", "refused", "error"}

\* The request after one more external call.
Called(r, name, arg, outcome) ==
    [req[r] EXCEPT !.calls = Append(@, Call(name, arg, outcome)), !.pre = NoPre]

\* The handler goes on to its next external call.
Goto(r, q, pc) ==
    /\ req' = [req EXCEPT ![r] = [q EXCEPT !.pc = pc]]
    /\ out' = NoOut
    /\ resp' = NoResp

\* Mutant of ExchangeCode: a failed exchange gives the token back
\* (UPDATE tokens SET used = FALSE).
ExchangeCodeRestoring(r, outcome) ==
    /\ req[r].pc = "exchange"
    /\ LET q == Called(r, "exchange", "code", outcome)
       IN  CASE outcome = "access_token"    -> Goto(r, q, "identity") /\ UNCHANGED tokens
             [] outcome = "no_access_token" ->
                    /\ Finish(r, q, 400, "Token exchange failed")
                    /\ tokens' = [u \in DOMAIN tokens |->
                                     IF u = q.state THEN [tokens[u] EXCEPT !.used = FALSE]
                                                    ELSE tokens[u]]
             [] OTHER -> Finish(r, q, 500, "Internal Server Error") /\ UNCHANGED tokens
    /\ UNCHANGED <<variant, now, nextToken, dbLock, dispatch, hist, lostUnused>>

\* Mutant of ExchangeCode: access_token is not examined.
ExchangeCodeUnchecked(r, outcome) ==
    /\ req[r].pc = "exchange"
    /\ LET q == Called(r, "exchange", "code", outcome)
       IN  IF outcome = "error"
           THEN Finish(r, q, 500, "Internal Server Error")
           ELSE Goto(r, q, "identity")
    /\ UNCHANGED <<variant, now, tokens, nextToken, dbLock, dispatch, hist, lostUnused>>

\* POST /api/oauth2/token; a response without access_token answers 400.
ExchangeCode(r, outcome) ==
    /\ req[r].pc = "exchange"
    /\ LET q == Called(r, "exchange", "code", outcome)
       IN  CASE outcome = "access_token"    -> Goto(r, q, "identity")
             [] outcome = "no_access_token" -> Finish(r, q, 400, "Token exchange failed")
             [] OTHER                       -> Finish(r, q, 500, "Internal Server Error")
    /\ UNCHANGED <<variant, now, tokens, nextToken, dbLock, dispatch, hist, lostUnused>>

\* Mutant of FetchIdentity: the guild-join call is left out.
FetchIdentitySkippingJoin(r, outcome) ==
    /\ req[r].pc = "identity"
    /\ LET q == Called(r, "identity", "access_token", outcome)
       IN  IF outcome = "error"
           THEN /\ Finish(r, q, 500, "Internal Server Error")
                /\ UNCHANGED hist
           ELSE /\ Goto(r, q, "grant")
                /\ hist' = Count(req[r].state, "entered")
    /\ UNCHANGED <<variant, now, tokens, nextToken, dbLock, dispatch, lostUnused>>

\* GET /api/users/@me; user_id = user_json.get("id") is not examined, and
\* the handler goes on to the guild-join call.
FetchIdentity(r, outcome) ==
    /\ req[r].pc = "identity"
    /\ LET q == Called(r, "identity", "access_token", outcome)
       IN  IF outcome = "error"
           THEN /\ Finish(r, q, 500, "Internal Server Error")
                /\ UNCHANGED hist
           ELSE /\ Goto(r, q, "join")
                /\ hist' = Count(req[r].state, "entered")
    /\ UNCHANGED <<variant, now, tokens, nextToken, dbLock, dispatch, lostUnused>>

\* PUT /guilds/{GUILD_ID}/members/{user_id}; the response is not examined.
JoinGuild(r, outcome) ==
    /\ req[r].pc = "join"
    /\ LET q == Called(r, "guild_join", "GUILD_ID", outcome)
       IN  IF outcome = "error"
           THEN Finish(r, q, 500, "Internal Server Error")
           ELSE Goto(r, q, "grant")
    /\ UNCHANGED <<variant, now, tokens, nextToken, dbLock, dispatch, hist, lostUnused>>

\* Mutant of GrantRole: the role of the cohort in the invite link's path is
\* granted.
GrantRoleByPath(r, outcome) ==
    /\ req[r].pc = "grant"
    /\ LET link == hist[req[r].state].link
           q == Called(r, "role_grant",
                       ROLE_MAP[IF link # "" THEN link ELSE req[r].role_key], outcome)
       IN  /\ hist' = Count(req[r].state, "grants")
           /\ IF outcome = "error"
              THEN Finish(r, q, 500, "Internal Server Error")
              ELSE Finish(r, q, 302, "INVITE_URL")
    /\ UNCHANGED <<variant, now, tokens, nextToken, dbLock, dispatch, lostUnused>>

\* Mutant of GrantRole: one role is granted whatever the role_key.
GrantRoleFixed(r, outcome) ==
    /\ req[r].pc = "grant"
    /\ LET q == Called(r, "role_grant", ROLE_MAP["pb_cohort"], outcome)
       IN  /\ hist' = Count(req[r].state, "grants")
           /\ IF outcome = "error"
              THEN Finish(r, q, 500, "Internal Server Error")
              ELSE Finish(r, q, 302, "INVITE_URL")
    /\ UNCHANGED <<variant, now, tokens, nextToken, dbLock, dispatch, lostUnused>>

\* role_id = ROLE_MAP[role_key]; PUT .../members/{user_id}/roles/{role_id};
\* the response is not examined; then raise HTTPFound(INVITE_URL).
GrantRole(r, outcome) ==
    /\ req[r].pc = "grant"
    /\ IF req[r].role_key \notin DOMAIN ROLE_MAP
       THEN /\ Finish(r, req[r], 500, "Internal Server Error")
            /\ UNCHANGED hist
       ELSE LET q == Called(r, "role_grant", ROLE_MAP[req[r].role_key], outcome)
            IN  /\ hist' = Count(req[r].state, "grants")
                /\ IF outcome = "error"
                   THEN Finish(r, q, 500, "Internal Server Error")
                   ELSE Finish(r, q, 302, "INVITE_URL")
    /\ UNCHANGED <<variant, now, tokens, nextToken, dbLock, dispatch, lostUnused>>

\* The client disconnects while the handler waits for the provider: the
\* handler task is cancelled and nothing more of it runs.
Cancel(r) ==
    /\ req[r].pc \in {"exchange", "identity", "join", "grant"}
    /\ Finish(r, req[r], 0, "cancelled")
    /\ UNCHANGED <<variant, now, tokens, nextToken, dbLock, dispatch, hist, lostUnused>>

\* The requests a stop of the process kills: its handlers are gone without
\* an answer.
Killed(q) ==
    IF q.pc \in {"idle", "done", "killed"} THEN q ELSE [q EXCEPT !.pc = "killed"]

\* Mutant of Restart: the used flags were kept in memory and are gone with
\* the process.
RestartForgetting ==
    /\ req' = [r \in Requests |-> Killed(req[r])]
    /\ dbLock' = NoLock
    /\ tokens' = [t \in DOMAIN tokens |-> [tokens[t] EXCEPT !.used = FALSE]]
    /\ dispatch' = [t \in {u \in DOMAIN dispatch : dispatch[u] # "pending"} |->
                       dispatch[t]]
    /\ out' = NoOut
    /\ resp' = NoResp
    /\ UNCHANGED <<variant, now, nextToken, hist, lostUnused>>

\* The process stops, at any point, and is started again:
\* main() runs init_database(), whose CREATE TABLE IF NOT EXISTS keeps the
\* table of the file DB_PATH.  The handlers in flight are gone, SQLite rolls
\* an open transaction back, and nothing else of a token is kept anywhere:
\* every call opens its own connection to the file.
Restart ==
    /\ req' = [r \in Requests |-> Killed(req[r])]
    /\ dbLock' = NoLock
    /\ dispatch' = [t \in {u \in DOMAIN dispatch : dispatch[u] # "pending"} |->
                       dispatch[t]]
    /\ out' = NoOut
    /\ resp' = NoResp
    /\ UNCHANGED <<variant, now, tokens, nextToken, hist, lostUnused>>

\* ----------------------------------------------------------- specifications

\* The state after init_database() on a new file.
Init ==
    /\ variant \in {"main", "alt"}
    /\ now = 0
    /\ tokens = <<>>
    /\ nextToken = 1
    /\ dbLock = NoLock
    /\ req = [r \in Requests |-> IdleReq]
    /\ dispatch = <<>>
    /\ out = NoOut
    /\ hist = <<>>
    /\ lostUnused = {}
    /\ resp = NoResp

\* The state after FlowTokens requests POST /bot/invite with different
\* emails, the first of them still before its dispatch.
RoleOf(t)  == IF t % 2 = 1 THEN "pb_cohort" ELSE "mb_cohort"
EmailOf(t) == CASE t = 1 -> "a@x.org" [] t = 2 -> "b@x.org" [] OTHER -> "c@x.org"

InitFlow ==
    /\ variant \in IF FlowTokens <= 3 THEN {"main", "alt"} ELSE {"main"}
    /\ now = 0
    /\ tokens = [t \in 1..FlowTokens |->
                    [Row(IF variant = "main" THEN t ELSE 1, RoleOf(t), EmailOf(t))
                        EXCEPT !.email_sent = (t # 1)]]
    /\ nextToken = FlowTokens + 1
    /\ dbLock = NoLock
    /\ req = [r \in Requests |-> IdleReq]
    /\ dispatch = [t \in 1..FlowTokens |-> IF t = 1 THEN "pending" ELSE "SENT"]
    /\ out = NoOut
    /\ hist = [t \in 1..FlowTokens |-> NewHist(RoleOf(t))]
    /\ lostUnused = {}
    /\ resp = NoResp

\* The state after InitFlow in which every request slot holds a callback
\* that was received and has called validate_and_mark, each with a token of
\* its own, none of them past BEGIN IMMEDIATE.
PairToken(r) == ((r - 1) % FlowTokens) + 1

InitPair ==
    /\ variant \in IF FlowTokens <= 3 THEN {"main", "alt"} ELSE {"main"}
    /\ now = 0
    /\ tokens = [t \in 1..FlowTokens |->
                    [Row(IF variant = "main" THEN t ELSE 1, RoleOf(t), EmailOf(t))
                        EXCEPT !.email_sent = (t # 1)]]
    /\ nextToken = FlowTokens + 1
    /\ dbLock = NoLock
    /\ req \in {[r \in Requests |->
                    [IdleReq EXCEPT !.pc = "begin", !.state = PairToken(r),
                                    !.code = c[r]]] : c \in [Requests -> BOOLEAN]}
    /\ dispatch = [t \in 1..FlowTokens |-> IF t = 1 THEN "pending" ELSE "SENT"]
    /\ out = NoOut
    /\ hist = [t \in 1..FlowTokens |-> NewHist(RoleOf(t))]
    /\ lostUnused = {}
    /\ resp = NoResp

Issue ==
    \/ \E b \in PostBodies : send_invite_email(b)
    \/ \E b \in PostBodies : register_user(b)
    \/ \E c \in Selectors, t \in Issued \cup {Bogus} : invite(c, t)

\* The issuance requests that create a token: the others are answered
\* without reading or writing anything a callback, the email status update
\* or the purge reads (C12_RejectionChangesNothing and C13_IssuanceInserts
\* check that under SpecIssue).
Accepted(body) ==
    /\ body.email # NoEmail
    /\ body.role \in DOMAIN ROLE_MAP
    /\ CanInsert(body.email)

IssueAccepted ==
    \/ \E b \in PostBodies : Accepted(b) /\ send_invite_email(b)
    \/ \E b \in PostBodies : Accepted(b) /\ register_user(b)
    \/ \E c \in Selectors :
          c \in DOMAIN ROLE_MAP /\ variant = "main" /\ invite(c, Bogus)

\* The issuance requests without a token parameter, and the requests that
\* follow the link of an email (GET /invite/{cohort}?token=...).
IssueNew ==
    \/ \E b \in PostBodies : send_invite_email(b)
    \/ \E b \in PostBodies : register_user(b)
    \/ \E c \in Selectors : invite(c, Bogus)

FollowLink == \E c \in Selectors, t \in Issued : invite(c, t)

Store ==
    \/ \E t \in Issued, sent \in BOOLEAN : send_welcome_email(t, sent)
    \/ cleanup_tokens
    \/ Tick

Redeem ==
    \/ \E r \in Requests, t \in Issued \cup {Bogus}, code \in BOOLEAN : Receive(r, t, code)
    \/ \E r \in Requests : BeginImmediate(r)
    \/ \E r \in Requests : SelectRow(r)
    \/ \E r \in Requests : MarkUsed(r)

Pipeline ==
    \/ \E r \in Requests, o \in ExchangeOutcomes : ExchangeCode(r, o)
    \/ \E r \in Requests, o \in IdentityOutcomes : FetchIdentity(r, o)
    \/ \E r \in Requests, o \in PutOutcomes : JoinGuild(r, o)
    \/ \E r \in Requests, o \in PutOutcomes : GrantRole(r, o)
    \/ \E r \in Requests : Cancel(r)

Fault ==
    \/ \E r \in Requests, at \in FaultPoints : StorageFault(r, at)
    \/ \E t \in Issued, sent \in BOOLEAN : send_welcome_email_fault(t, sent)

NextStore == IssueAccepted \/ Store \/ Redeem
NextIssue == Issue \/ Store
NextFault == Store \/ Redeem \/ Fault
NextRestart == Store \/ Redeem \/ Restart
\* The next statement of the handler of request r: a storage operation of
\* validate_and_mark returns or raises, an external call returns or fails.
Step(r) ==
    \/ BeginImmediate(r)
    \/ SelectRow(r)
    \/ MarkUsed(r)
    \/ \E at \in FaultPoints : StorageFault(r, at)
    \/ \E o \in ExchangeOutcomes : ExchangeCode(r, o)
    \/ \E o \in IdentityOutcomes : FetchIdentity(r, o)
    \/ \E o \in PutOutcomes : JoinGuild(r, o)
    \/ \E o \in PutOutcomes : GrantRole(r, o)

Arrive == \E r \in Requests, t \in Issued \cup {Bogus}, code \in BOOLEAN : Receive(r, t, code)

NextLive == Arrive \/ \E r \in Requests : Step(r)
NextPair ==
    \/ \E r \in Requests : BeginImmediate(r)
    \/ \E r \in Requests : SelectRow(r)
    \/ \E r \in Requests : MarkUsed(r)
    \/ \E t \in Issued, sent \in BOOLEAN : send_welcome_email(t, sent)
    \/ Pipeline
NextChain == IssueNew \/ Redeem \/ Pipeline
NextLink == FollowLink \/ Redeem \/ Pipeline
NextFlow  == Store \/ Redeem \/ Pipeline
Next      == Issue \/ Store \/ Redeem \/ Pipeline

SpecStore == Init /\ [][NextStore]_vars
SpecIssue == Init /\ [][NextIssue]_vars
SpecFault == InitFlow /\ [][NextFault]_vars
SpecRestart == InitFlow /\ [][NextRestart]_vars
SpecChain == Init /\ [][NextChain]_vars
SpecLink == InitFlow /\ [][NextLink]_vars
SpecPair == InitPair /\ [][NextPair]_vars
SpecFlow  == InitFlow /\ [][NextFlow]_vars

\* The event loop resumes every handler whose awaited operation is over, and
\* every storage operation and every external call returns or fails: the
\* next statement of a request that has one is executed in the end.
SpecLive ==
    /\ InitFlow
    /\ [][NextLive]_vars
    /\ \A r \in Requests : WF_vars(Step(r))
Spec      == Init /\ [][Next]_vars

\* ------------------------------------------------------------------ claims

\* The calls of a log that went to `name`, and whether one was answered
\* with `outcome`.
CallsTo(calls, name) == {i \in 1..Len(calls) : calls[i].call = name}
Answered(calls, name, outcome) ==
    \E i \in CallsTo(calls, name) : calls[i].outcome = outcome

\* A response was sent by the step just taken.
Sent == out # NoOut

\* C1: at-most-once redemption.  For every issued token, over all
\* validate_and_mark calls on it under every interleaving, at most one call
\* returns a role_key, and a call returns None only when another call has
\* won (or the unused row was purged): N calls on an unused row end as one
\* success and N-1 None.
C1_AtMostOnce ==
    \A t \in DOMAIN hist :
        /\ hist[t].wins <= 1
        /\ (hist[t].nones > 0 /\ t \notin lostUnused) => hist[t].wins = 1

\* C1 witness: all MaxReq calls raced on one token whose row is still in the
\* table: one won, the others got None.
C1_Witness ==
    \E t \in DOMAIN hist :
        /\ t \in DOMAIN tokens
        /\ hist[t].wins = 1
        /\ hist[t].nones = MaxReq - 1
        /\ hist[t].nones >= 1

\* C2: no resurrection.  Once a validate_and_mark call on a token has
\* returned a role_key, no step of issue, redeem, email-status update or
\* purge lets another call on it return a role_key: every later call
\* returns None.
C2_NoResurrection ==
    [][\A t \in DOMAIN hist :
          hist[t].wins >= 1 => /\ hist'[t].wins = hist[t].wins
                               /\ hist'[t].nones >= hist[t].nones]_vars

\* C2 witness: a token was redeemed, its row was purged, and a later call on
\* it was answered None.
C2_Witness ==
    /\ Sent
    /\ out.state \in DOMAIN hist
    /\ hist[out.state].wins = 1
    /\ out.pre.row = "absent"
    /\ out.role_key = NoRole

\* C3: used is monotonic.  A row is unused from its creation until a
\* validate_and_mark call marks it; a used row that stays in the table stays
\* used through every step (email status update, purge, a callback that
\* fails or is cancelled after the token was consumed); a deleted token's
\* row never comes back.
C3_UsedMonotonic ==
    [][\A t \in DOMAIN tokens' :
          /\ tokens'[t].used => hist'[t].wins >= 1
          /\ t \in DOMAIN tokens => (tokens[t].used => tokens'[t].used)
          /\ t \notin DOMAIN tokens => (t = nextToken /\ ~tokens'[t].used)]_vars

\* C3 witness: a callback failed or was cancelled after it had consumed the
\* token, and the row is still used.
C3_Witness ==
    /\ Sent
    /\ out.marked
    /\ out.status # 302
    /\ out.calls # <<>>
    /\ out.state \in DOMAIN tokens
    /\ tokens[out.state].used

\* C4: a token is redeemable iff its row exists with used = false, expired
\* or not.  A validate_and_mark call returns a role_key exactly when its
\* transaction found the row unused, and then the role_key the token was
\* issued for.
Returned(q) ==
    /\ q.role_key # NoRole <=> q.pre.row = "unused"
    /\ q.role_key # NoRole => q.role_key = hist[q.state].role_key

C4_RedeemableIffUnused ==
    /\ \A r \in Requests : req[r].pc = "exchange" => Returned(req[r])
    /\ (Sent /\ out.pre # NoPre) => Returned(out)

\* C4 witness: a call returned the role_key of a row whose expires_at had
\* passed.
C4_Witness ==
    \E r \in Requests :
        /\ req[r].pc = "exchange"
        /\ req[r].pre.expired
        /\ req[r].role_key # NoRole

\* The stages of a callback after VALIDATING, and those of GRANTING_ROLE.
PipelinePcs == {"exchange", "identity", "join", "grant"}
GrantingPcs == {"join", "grant"}

\* C5: no role grant without a freshly consumed token.  A request is in the
\* pipeline, and a role-grant call is in a request's log, only when the
\* request's own validate_and_mark call changed its state token from unused
\* to used; so at most one role-grant call is made per token.
C5_GrantNeedsFreshToken ==
    /\ \A r \in Requests :
          req[r].pc \in PipelinePcs => (req[r].marked /\ req[r].role_key # NoRole)
    /\ (Sent /\ CallsTo(out.calls, "role_grant") # {}) =>
          (out.marked /\ out.role_key # NoRole)
    /\ \A t \in DOMAIN hist : hist[t].grants <= 1

\* C5 witness: a role-grant call was made, by the request that consumed the
\* token, while another request on the same token was turned away.
C5_Witness ==
    /\ Sent
    /\ CallsTo(out.calls, "role_grant") # {}
    /\ out.marked
    /\ hist[out.state].grants = 1
    /\ hist[out.state].nones >= 1

\* C6: of the callbacks that carry the same unused token and a code, under
\* every interleaving at most one enters GRANTING_ROLE, namely the one whose
\* validate_and_mark call won, once its code exchange and identity lookup
\* were answered; a callback that found the token used is rejected with 400
\* and has made no external call.
C6_OneReachesGranting ==
    /\ \A t \in DOMAIN hist : hist[t].entered <= hist[t].wins /\ hist[t].entered <= 1
    /\ \A r \in Requests :
          /\ req[r].pc \in GrantingPcs => hist[req[r].state].entered = 1
          /\ (Answered(req[r].calls, "exchange", "access_token") /\
               Answered(req[r].calls, "identity", "id")) => req[r].pc \in GrantingPcs
    /\ (Sent /\ out.code /\ out.pre.row = "used") =>
          (out.status = 400 /\ out.calls = <<>>)

\* C6 witness: two callbacks with a code ran on one token at the same time;
\* one is in GRANTING_ROLE and the other has just been rejected.
C6_Witness ==
    /\ Sent
    /\ out.code
    /\ out.pre.row = "used"
    /\ out.status = 400
    /\ \E r \in Requests : req[r].state = out.state /\ req[r].pc \in GrantingPcs

\* C7: a callback whose validate_and_mark call returned None (the state is
\* a used or an unknown token) is answered 400 "Invalid, expired, or
\* already-used link" and makes no external call: it never is in the
\* pipeline, and its log is empty.
C7_RejectedMakesNoCall ==
    /\ \A r \in Requests : req[r].pc \in PipelinePcs => req[r].role_key # NoRole
    /\ (Sent /\ out.role_key = NoRole) =>
          /\ out.status = 400
          /\ out.text = "Invalid, expired, or already-used link"
          /\ out.calls = <<>>

\* C7 witness: a callback with a code and an already-used token was rejected.
C7_Witness ==
    /\ Sent
    /\ out.role_key = NoRole
    /\ out.code
    /\ out.pre.row = "used"
    /\ out.state \in DOMAIN tokens

\* C8: when the code exchange is answered without an access token, the
\* callback is answered 400 "Token exchange failed", the exchange is its
\* only external call, and the token's row, if still in the table, is used.
C8_ExchangeFailure ==
    /\ \A r \in Requests : ~Answered(req[r].calls, "exchange", "no_access_token")
    /\ (Sent /\ Answered(out.calls, "exchange", "no_access_token")) =>
          /\ out.status = 400
          /\ out.text = "Token exchange failed"
          /\ Len(out.calls) = 1
          /\ out.state \in DOMAIN tokens => tokens[out.state].used

\* C8 witness: an exchange without access token ended a callback, and the
\* token's row is in the table, used.
C8_Witness ==
    /\ Sent
    /\ Answered(out.calls, "exchange", "no_access_token")
    /\ out.state \in DOMAIN tokens
    /\ tokens[out.state].used

\* C9: when the identity lookup returns no user identifier, the callback
\* makes no guild-join call and no role-grant call and does not reach
\* COMPLETE.
C9_IdentityFailureStops ==
    /\ \A r \in Requests :
          Answered(req[r].calls, "identity", "no_id") => req[r].pc \notin GrantingPcs
    /\ (Sent /\ Answered(out.calls, "identity", "no_id")) =>
          /\ CallsTo(out.calls, "guild_join") = {}
          /\ CallsTo(out.calls, "role_grant") = {}
          /\ out.status # 302

\* C10: the success redirect is returned only when both the guild-join call
\* and the role-grant call succeeded; a refused call ends the callback in
\* FAILED(grant).
C10_GrantFailureStops ==
    /\ \A r \in Requests :
          Answered(req[r].calls, "guild_join", "refused") => req[r].pc # "grant"
    /\ (Sent /\ out.status = 302) =>
          /\ Answered(out.calls, "guild_join", "ok")
          /\ Answered(out.calls, "role_grant", "ok")

\* C11: a storage error during validate_and_mark is not reported as "not
\* found": a callback whose validate_and_mark call met a storage error (at
\* BEGIN IMMEDIATE, the SELECT, the UPDATE or the commit) is answered with a
\* server error, not with the 400 rejection.
C11_StorageErrorSurfaces ==
    (Sent /\ out.fault # "") =>
        /\ out.status = 500
        /\ out.text # "Invalid, expired, or already-used link"

\* C15: when send_welcome_email has returned, its result and the record's
\* email_sent flag tell whether the SMTP dispatch succeeded, also when the
\* UPDATE of the flag failed.
C15_EmailSentReflectsDispatch ==
    (resp.route = "POST /bot/invite" /\ resp.smtp # "") =>
        /\ resp.body = "SENT" <=> resp.smtp = "sent"
        /\ resp.token \in DOMAIN tokens =>
              (tokens[resp.token].email_sent <=> resp.smtp = "sent")

\* The routes that issue tokens.
IssuanceRoutes == {"POST /bot/invite", "GET /invite"}

\* C12: role-map closure on rejection.  An issuance request whose role
\* selector is not a key of ROLE_MAP is answered 400 and changes neither the
\* token table nor the pending dispatches; no record is ever created with a
\* role_key outside ROLE_MAP.
C12_RejectionChangesNothing ==
    [][/\ (resp'.route \in IssuanceRoutes /\ resp'.role \notin DOMAIN ROLE_MAP) =>
             /\ resp'.status = 400
             /\ UNCHANGED <<tokens, nextToken, dispatch>>
       /\ \A t \in DOMAIN tokens' \ DOMAIN tokens :
             tokens'[t].role_key \in DOMAIN ROLE_MAP]_vars

\* C12 witness: POST /bot/invite with role "unknown" was answered 400 while
\* the table holds a record.
C12_Witness ==
    /\ resp.route = "POST /bot/invite"
    /\ resp.role = "unknown"
    /\ resp.status = 400
    /\ tokens # <<>>

\* C13: an issuance request with a role selector of ROLE_MAP (and, for POST,
\* all required fields; for GET, no token parameter) inserts one new unused
\* record for that role and its response carries the new token, in both
\* variants.
C13_IssuanceInserts ==
    [][/\ (resp'.route = "GET /invite" /\ resp'.role \in DOMAIN ROLE_MAP
             /\ resp'.given = Bogus) =>
             /\ resp'.status = 302
             /\ resp'.token = nextToken
             /\ DOMAIN tokens' = DOMAIN tokens \cup {nextToken}
             /\ ~tokens'[nextToken].used
             /\ tokens'[nextToken].role_key = resp'.role
       /\ (resp'.route = "POST /bot/invite" /\ resp'.role \in DOMAIN ROLE_MAP
             /\ resp'.error # "Missing required fields") =>
             /\ resp'.body \in {"SENT", "EMAIL_FAILED"}
             /\ resp'.token \in Issued
       /\ \A t \in DOMAIN dispatch' \ DOMAIN dispatch :
             /\ t = nextToken
             /\ DOMAIN tokens' = DOMAIN tokens \cup {t}
             /\ ~tokens'[t].used]_vars

\* C14: dispatch independence.  The step in which send_welcome_email returns
\* deletes no record and changes no record's used flag, so every token is
\* redeemable after it exactly when it was before, whether the dispatch
\* succeeded or failed; a failed dispatch is answered 500 with status
\* EMAIL_FAILED and the token.
C14_DispatchIndependence ==
    [][resp'.route = "POST /bot/invite" /\ resp'.smtp # "" =>
          /\ DOMAIN tokens' = DOMAIN tokens
          /\ \A t \in DOMAIN tokens : tokens'[t].used = tokens[t].used
          /\ \A t \in Issued : RowValid(t)' <=> RowValid(t)
          /\ resp'.smtp = "failed" =>
                /\ resp'.status = 500
                /\ resp'.body = "EMAIL_FAILED"
                /\ resp'.token \in Issued
                /\ dispatch[resp'.token] = "pending"]_vars

\* C14 witness: a token whose dispatch failed was redeemed: validate_and_mark
\* returned its role_key.
C14_Witness ==
    \E r \in Requests :
        /\ req[r].pc = "exchange"
        /\ req[r].state \in DOMAIN dispatch
        /\ dispatch[req[r].state] = "EMAIL_FAILED"
        /\ req[r].role_key = hist[req[r].state].role_key

\* The records a step deleted.
Deleted == DOMAIN tokens \ DOMAIN tokens'

\* C16: purge safety.  Only GET /cleanup deletes records; it deletes no
\* record whose expires_at is later than the current time, leaves the
\* records it keeps as they are, and is answered 200; when no record is
\* expired the table is unchanged.
C16_PurgeSafety ==
    [][/\ Deleted # {} => resp'.route = "GET /cleanup"
       /\ resp'.route = "GET /cleanup" =>
             /\ resp'.status = 200
             /\ \A t \in Deleted : ~(tokens[t].expires_at > now)
             /\ \A t \in DOMAIN tokens' : tokens'[t] = tokens[t]
             /\ (\A t \in DOMAIN tokens : ~(tokens[t].expires_at < now)) =>
                   tokens' = tokens]_vars

\* C16 witness: a purge has just run after the clock advanced; an expired
\* record is gone and a record that expires later is in the table.
C16_Witness ==
    /\ resp.route = "GET /cleanup"
    /\ Issued \ DOMAIN tokens # {}
    /\ \E t \in DOMAIN tokens : tokens[t].expires_at > now

\* C17: the purge deletes every record whose expires_at has passed, used or
\* unused: right after a purge no expired record is left (a second purge at
\* the same time finds nothing to delete), and a validate_and_mark call
\* whose transaction finds the row gone returns None (the callback is
\* answered 400).
C17_PurgeDeletesAllExpired ==
    /\ resp.route = "GET /cleanup" => \A t \in DOMAIN tokens : ~Expired(tokens[t])
    /\ \A r \in Requests : req[r].pre.row = "absent" => req[r].pc = "select"
    /\ (Sent /\ out.pre.row = "absent") => (out.role_key = NoRole /\ out.status = 400)

\* C17 witness: an unused and a used record were purged, and a callback on
\* the purged unused token has just been turned away.
C17_Witness ==
    /\ Sent
    /\ out.state \in lostUnused
    /\ out.pre.row = "absent"
    /\ out.role_key = NoRole
    /\ \E u \in Issued \ DOMAIN tokens : hist[u].wins = 1

\* C18: the purge and the redemption of a token exclude each other.  A row
\* that a validate_and_mark call has selected as valid is in the table,
\* unused, until that call's UPDATE; a call that returns a role_key has
\* marked the row; a token whose row was deleted unused is never redeemed;
\* and at most one call per token returns a role_key.
C18_PurgeRedeemRace ==
    /\ \A r \in Requests :
          /\ req[r].pc = "update" => RowValid(req[r].state)
          /\ req[r].pc = "exchange" => req[r].marked
    /\ (Sent /\ out.role_key # NoRole) => out.marked
    /\ \A t \in DOMAIN hist : hist[t].wins <= 1
    /\ \A t \in lostUnused : hist[t].wins = 0

\* C18 witness: an expired token was redeemed and the purge has just removed
\* its used record, while another callback on the token is waiting.
C18_Witness ==
    /\ resp.route = "GET /cleanup"
    /\ \E r, w \in Requests :
          /\ req[r].pc = "exchange"
          /\ req[r].pre.expired
          /\ req[r].state \notin DOMAIN tokens
          /\ req[w].pc = "begin"
          /\ req[w].state = req[r].state

\* The records a step created.
Created == DOMAIN tokens' \ DOMAIN tokens

C20_RecordFrame ==
    [][\A t \in DOMAIN tokens :
          /\ t \in Deleted => resp'.route = "GET /cleanup"
          /\ t \notin Deleted =>
                /\ tokens'[t].role_key = tokens[t].role_key
                /\ tokens'[t].expires_at = tokens[t].expires_at
                /\ tokens'[t].email = tokens[t].email
                /\ tokens'[t].used # tokens[t].used =>
                      /\ tokens'[t] = [tokens[t] EXCEPT !.used = TRUE]
                      /\ \E r \in Requests : req[r].pc = "update" /\ req[r].state = t
                /\ tokens'[t].email_sent # tokens[t].email_sent =>
                      /\ tokens'[t] = [tokens[t] EXCEPT !.email_sent = ~@]
                      /\ dispatch[t] = "pending" /\ dispatch'[t] # "pending"]_vars

\* C20 witness: a record has been marked used and its email_sent flag set,
\* and another record has been purged.
C20_Witness ==
    /\ \E t \in DOMAIN tokens : tokens[t].used /\ tokens[t].email_sent
    /\ Issued \ DOMAIN tokens # {}

\* C21: the at-most-once guarantee survives restarts.  Once a
\* validate_and_mark call on a token has committed, no step, a stop and
\* restart of the process included, lets another call on it return a
\* role_key or turns its record unused again.
C21_SurvivesRestart ==
    [][\A t \in DOMAIN hist :
          hist[t].wins >= 1 =>
              /\ hist'[t].wins = 1
              /\ (t \in DOMAIN tokens /\ t \in DOMAIN tokens') =>
                    (tokens[t].used => tokens'[t].used)]_vars

\* C21 witness: the process was stopped after a call on a token had
\* committed, and a call on the token after the restart returned None.
C21_Witness ==
    /\ Sent
    /\ out.pre.row = "used"
    /\ out.role_key = NoRole
    /\ \E r \in Requests :
          /\ req[r].pc = "killed"
          /\ req[r].marked
          /\ req[r].state = out.state

\* What a callback that is turned away is answered, and why a token is not
\* redeemable.
Rejection == [status |-> 400, text |-> "Invalid, expired, or already-used link"]
Response(e) == [status |-> e.status, text |-> e.text]
RejectionCase(e) ==
    CASE e.pre.row = "used"                              -> "used"
      [] e.pre.row = "absent" /\ e.state \in DOMAIN hist -> "purged"
      [] e.pre.row = "absent"                            -> "never existed"
      [] OTHER                                           -> ""

\* C22: rejections are indistinguishable.  Whether the state token never
\* existed, was purged, or was used (redeemed before, or by the winner of a
\* race), the callback's response is the same one, and it comes without an
\* external call.
C22_RejectionsAlike ==
    \A c \in {"never existed", "purged", "used"} :
        (Sent /\ out.fault = "" /\ RejectionCase(out) = c) =>
            /\ Response(out) = Rejection
            /\ out.calls = <<>>

\* C22 witness: a callback whose state never was a token has just been
\* turned away, after a callback on a purged token was.
C22_Witness ==
    /\ Sent
    /\ RejectionCase(out) = "never existed"
    /\ out.code
    /\ \E t \in lostUnused : hist[t].nones >= 1

\* All four external calls of a log succeeded.
AllSucceeded(calls) ==
    /\ Answered(calls, "exchange", "access_token")
    /\ Answered(calls, "identity", "id")
    /\ Answered(calls, "guild_join", "ok")
    /\ Answered(calls, "role_grant", "ok")

\* C23: success path.  A callback whose four external calls all succeeded is
\* answered with the redirect to INVITE_URL, in the step of its role-grant
\* call, and that call, its only role-grant call, is for the role id
\* ROLE_MAP[R] of the role key R the token was issued for.
C23_SuccessPath ==
    /\ \A r \in Requests : ~AllSucceeded(req[r].calls)
    /\ (Sent /\ AllSucceeded(out.calls)) =>
          /\ out.status = 302
          /\ out.text = "INVITE_URL"
          /\ Cardinality(CallsTo(out.calls, "role_grant")) = 1
          /\ \A i \in CallsTo(out.calls, "role_grant") :
                out.calls[i].arg = ROLE_MAP[hist[out.state].role_key]

\* C23 witness: the token issued for mb_cohort was redeemed and all four
\* calls succeeded.
C23_Witness ==
    /\ Sent
    /\ AllSucceeded(out.calls)
    /\ hist[out.state].role_key = "mb_cohort"
    /\ out.status = 302

\* The order of the external calls, and a log that follows it.
PipelineOrder == <<"exchange", "identity", "guild_join", "role_grant">>
InOrder(calls) ==
    /\ Len(calls) <= Len(PipelineOrder)
    /\ \A i \in 1..Len(calls) : calls[i].call = PipelineOrder[i]

\* The record of token t, if it is in the table, is used.
UsedOrGone(t) == t \in DOMAIN tokens => tokens[t].used

\* C25: the external calls of a callback are made in the order code
\* exchange, identity lookup, guild-join, role-grant, each at most once, and
\* the token is marked used before the first of them.
C25_CallOrder ==
    /\ \A r \in Requests :
          /\ InOrder(req[r].calls)
          /\ (req[r].pc \in PipelinePcs \/ req[r].calls # <<>>) =>
                (req[r].marked /\ UsedOrGone(req[r].state))
    /\ Sent =>
          /\ InOrder(out.calls)
          /\ out.calls # <<>> => (out.marked /\ UsedOrGone(out.state))

\* C25 witness: a callback has made all four calls.
C25_Witness ==
    /\ Sent
    /\ Len(out.calls) = Len(PipelineOrder)
    /\ out.calls[Len(out.calls)].call = "role_grant"

\* C28: the token is consumed before the code is checked.  A callback
\* without a code whose state is a token of the table leaves the token used
\* and is answered 400 without an external call; if it found the token
\* unused, it is the one call that redeemed it, and no callback enters
\* GRANTING_ROLE for the token.
C28_ConsumedBeforeCodeCheck ==
    /\ (Sent /\ ~out.code /\ out.state \in DOMAIN tokens) =>
          /\ tokens[out.state].used
          /\ out.status = 400
          /\ out.calls = <<>>
    /\ (Sent /\ ~out.code /\ out.pre.row = "unused") =>
          /\ out.marked
          /\ hist[out.state].wins = 1
          /\ hist[out.state].entered = 0
          /\ hist[out.state].grants = 0

\* C28 witness: a callback without a code has just consumed a token, and a
\* callback with a code on the same token is about to validate it.
C28_Witness ==
    /\ Sent
    /\ ~out.code
    /\ out.marked
    /\ out.state \in DOMAIN tokens
    /\ \E r \in Requests :
          req[r].state = out.state /\ req[r].code /\ req[r].pc = "begin"

\* C24: every record's role_key is a key of ROLE_MAP, and so is every
\* role_key a validate_and_mark call returns; the ROLE_MAP[role_key] lookup
\* of GRANTING_ROLE does not fail: a callback that was answered after its
\* guild-join call was answered has made its role-grant call.
C24_RoleKeyInRoleMap ==
    /\ \A t \in DOMAIN tokens : tokens[t].role_key \in DOMAIN ROLE_MAP
    /\ \A r \in Requests :
          req[r].role_key # NoRole => req[r].role_key \in DOMAIN ROLE_MAP
    /\ Sent =>
          /\ out.role_key # NoRole => out.role_key \in DOMAIN ROLE_MAP
          /\ (out.status # 0 /\ \E i \in CallsTo(out.calls, "guild_join") :
                                   out.calls[i].outcome # "error") =>
                CallsTo(out.calls, "role_grant") # {}

\* C24 witness: a token created by GET /invite (it has no email) was redeemed
\* and the role-grant call for its role was made.
C24_Witness ==
    /\ Sent
    /\ CallsTo(out.calls, "role_grant") # {}
    /\ out.state \in DOMAIN tokens
    /\ tokens[out.state].email = NoEmail
    /\ out.role_key = tokens[out.state].role_key

\* C30: the role granted is fixed by the token's stored role_key.  GET
\* /invite/{cohort}?token=T changes no record and no callback, and passes T
\* on as state, whatever the cohort; the role-grant call of a callback on T
\* is for ROLE_MAP of the role_key T was issued for.
C30_PathCohortIgnored ==
    [][/\ (resp'.route = "GET /invite" /\ resp'.given # Bogus) =>
             /\ UNCHANGED <<tokens, req, dispatch>>
             /\ resp'.status = 302 => resp'.token = resp'.given
       /\ \A i \in CallsTo(out'.calls, "role_grant") :
             out'.calls[i].arg = ROLE_MAP[hist'[out'.state].role_key]]_vars

\* C30 witness: the link of a token was followed with the cohort of another
\* role in the path, and the callback has granted the role of the token.
C30_Witness ==
    /\ Sent
    /\ out.status = 302
    /\ hist[out.state].link \in DOMAIN ROLE_MAP
    /\ hist[out.state].link # hist[out.state].role_key
    /\ \E i \in CallsTo(out.calls, "role_grant") :
          out.calls[i].arg = ROLE_MAP[hist[out.state].role_key]

C27_InviteFrame ==
    [][(resp'.route = "GET /invite" /\ resp'.role \in DOMAIN ROLE_MAP) =>
          /\ resp'.status = 302
          /\ IF resp'.given # Bogus
             THEN /\ UNCHANGED <<tokens, nextToken>>
                  /\ resp'.token = resp'.given
             ELSE /\ DOMAIN tokens' = DOMAIN tokens \cup {resp'.token}
                  /\ resp'.token \notin DOMAIN tokens
                  /\ tokens'[resp'.token].role_key = resp'.role
                  /\ ~tokens'[resp'.token].used
                  /\ \A t \in DOMAIN tokens : tokens'[t] = tokens[t]]_vars

\* The pcs of a callback that was received and is not answered.
ActivePcs == {"begin", "select", "update", "exchange", "identity", "join", "grant"}

\* The terminal outcome of a response: REJECTED (400 before any call),
\* FAILED (400 or 500 at a stage), COMPLETE (302).
Outcome(e) ==
    CASE e.status = 302 -> "COMPLETE"
      [] e.status = 400 /\ e.calls = <<>> -> "REJECTED"
      [] e.status \in {400, 500} -> "FAILED"
      [] OTHER -> "none"

\* C26: every callback that was received is answered, also when another
\* request on the same token runs at the same time; it is answered once,
\* with one of the outcomes REJECTED, FAILED, COMPLETE, and stays answered.
C26_Terminates ==
    /\ \A r \in Requests : (req[r].pc \in ActivePcs) ~> (req[r].pc = "done")
    /\ [][\A r \in Requests :
             /\ req[r].pc = "done" => req'[r].pc = "done"
             /\ (req[r].pc # "done" /\ req'[r].pc = "done") =>
                   /\ req[r].pc \in ActivePcs
                   /\ Outcome(out') \in {"REJECTED", "FAILED", "COMPLETE"}]_vars

\* C26 witness: a request was answered with COMPLETE for a token while the
\* other request, on the same token, waits for the write lock or is being
\* validated.
C26_Witness ==
    /\ Sent
    /\ Outcome(out) = "COMPLETE"
    /\ \E r \in Requests :
          /\ req[r].pc \in {"begin", "select"}
          /\ req[r].state = out.state

\* The pcs of a request inside validate_and_mark.
ValidatingPcs == {"begin", "select", "update"}

\* C31: redemptions of different tokens are independent.  A step of
\* validate_and_mark on one token leaves the record and the history of every
\* other token unchanged; of calls on distinct unused tokens that run at the
\* same time none returns None under any interleaving, each call that has
\* returned has returned the role_key its own token was issued for, and once
\* all have returned every token was won once.
C31_Independent ==
    /\ [](/\ \A t \in DOMAIN hist : hist[t].nones = 0 /\ hist[t].wins <= 1
          /\ \A r \in Requests :
                req[r].pc \in PipelinePcs =>
                   /\ req[r].marked
                   /\ req[r].role_key = hist[req[r].state].role_key
          /\ (\A r \in Requests : req[r].pc \notin ValidatingPcs) =>
                \A r \in Requests : hist[PairToken(r)].wins = 1)
    /\ [][\A r \in Requests :
             (req[r].pc \in ValidatingPcs /\ req'[r] # req[r]) =>
                \A t \in DOMAIN tokens \ {req[r].state} :
                   /\ t \in DOMAIN tokens'
                   /\ tokens'[t] = tokens[t]
                   /\ hist'[t] = hist[t]]_vars

\* C31 witness: two calls on different tokens have both returned, each the
\* role_key of its own token, and both tokens are marked used.
C31_Witness ==
    /\ \A r \in Requests :
          /\ req[r].pc = "exchange"
          /\ req[r].calls = <<>>
          /\ req[r].role_key = RoleOf(req[r].state)
    /\ \E r, q \in Requests :
          /\ req[r].state # req[q].state
          /\ req[r].role_key # req[q].role_key
    /\ \A t \in DOMAIN tokens : tokens[t].used /\ hist[t].wins = 1

====
